---- MODULE Spec2Model ----
(***************************************************************************)
(* Model of tensorrt_llm/llmapi/disagg_utils.py: composition of the        *)
(* disaggregated-serving configuration (extract_disagg_cfg and helpers),   *)
(* the duplicate-address registry (get_server_configs_dict) and the rank   *)
(* partitioning of MPI_COMM_WORLD (split_world_comm).                      *)
(***************************************************************************)
EXTENDS Integers, Sequences, FiniteSets, TLC

\* ---------------------------------------------------------------- bounds
\* longest instance sequence handed to the registry
MaxInst == 3
\* largest instance_num_ranks of an instance
MaxRanks == 2

\* ------------------------------------------------------------ data model
\* Optional[str] hostname: a string is the sequence of its characters, None is
\* a value no parsed hostname can equal.  Optional[int] port: None is a value
\* int() never returns for the digit strings modelled here.
NoneHost == <<"None">>
NonePort == 0 - 1

\* CtxGenServerConfig (dataclass)
CtxGenServerConfig(type, hostname, port, instance_num_ranks, other_args) ==
    [type |-> type, hostname |-> hostname, port |-> port,
     instance_num_ranks |-> instance_num_ranks, other_args |-> other_args]

\* a dict with no entries
EmptyDict == [x \in {} |-> 0]

\* dict.pop(key) on a dict that holds key: the remaining dict
DictPop(d, key) == [x \in (DOMAIN d) \ {key} |-> d[x]]

\* d[key] = value
DictSet(d, key, value) == [x \in (DOMAIN d) \cup {key} |-> IF x = key THEN value ELSE d[x]]

\* ------------------------------------------------- get_server_configs_dict
\* url = (cfg.hostname, cfg.port)
Url(cfg) == <<cfg.hostname, cfg.port>>

\* state of the loop before its first iteration (lines 182-183)
RegistryStart == [num_workers |-> 0, server_dict |-> EmptyDict, err |-> "none"]

\* a faulty iteration: an accepted co-located instance adds its ranks again
RegistryIterCountsDup(st, cfg) ==
    LET url == Url(cfg) IN
    IF url \in DOMAIN st.server_dict
    THEN LET cfg_prev == st.server_dict[url] IN
         IF cfg_prev.type = cfg.type
         THEN [st EXCEPT !.err = "DuplicateServer"]
         ELSE IF cfg_prev.other_args # cfg.other_args
              THEN [st EXCEPT !.err = "MixedRoleArgsConflict"]
              ELSE [st EXCEPT !.num_workers = @ + cfg.instance_num_ranks]
    ELSE [st EXCEPT !.server_dict = DictSet(@, url, cfg),
                    !.num_workers = @ + cfg.instance_num_ranks]

\* one iteration of "for cfg in server_configs" (lines 186-200)
RegistryIter(st, cfg) ==
    LET url == Url(cfg) IN
    IF url \in DOMAIN st.server_dict
    THEN LET cfg_prev == st.server_dict[url] IN
         IF cfg_prev.type = cfg.type
         THEN [st EXCEPT !.err = "DuplicateServer"]
         ELSE IF cfg_prev.other_args # cfg.other_args
              THEN [st EXCEPT !.err = "MixedRoleArgsConflict"]
              ELSE st
    ELSE [st EXCEPT !.server_dict = DictSet(@, url, cfg),
                    !.num_workers = @ + cfg.instance_num_ranks]

\* the loop from position k on; a raise leaves the loop
RECURSIVE RegistryFrom(_, _, _)
RegistryFrom(st, cfgs, k) ==
    IF k > Len(cfgs) \/ st.err # "none" THEN st
    ELSE RegistryFrom(RegistryIter(st, cfgs[k]), cfgs, k + 1)

\* get_server_configs_dict(server_configs): (num_workers, server_dict) or a raise
get_server_configs_dict(cfgs) == RegistryFrom(RegistryStart, cfgs, 1)

\* ------------------------------------------------------- split_world_comm
\* locals before the walk (lines 216-219); server_dict is the registry's dict
WalkStart(server_dict) ==
    [is_leader |-> FALSE, offset |-> 0, instance_idx |-> 0,
     instance_sub_rank |-> 0, server_dict |-> server_dict]

\* a faulty iteration: a co-located instance is not skipped
WalkIterNoSkip(w, idx, cfg, global_rank) ==
    LET hit == global_rank >= w.offset /\ global_rank < w.offset + cfg.instance_num_ranks IN
    [is_leader |-> IF hit /\ global_rank = w.offset THEN TRUE ELSE w.is_leader,
     offset |-> w.offset + cfg.instance_num_ranks,
     instance_idx |-> IF hit THEN idx ELSE w.instance_idx,
     instance_sub_rank |-> IF hit THEN global_rank - w.offset ELSE w.instance_sub_rank,
     server_dict |-> DictPop(w.server_dict, Url(cfg))]

\* a faulty iteration: every rank of the interval is made the leader
WalkIterLeaderOnHit(w, idx, cfg, global_rank) ==
    IF Url(cfg) \notin DOMAIN w.server_dict THEN w
    ELSE LET hit == global_rank >= w.offset /\ global_rank < w.offset + cfg.instance_num_ranks IN
         [is_leader |-> IF hit THEN TRUE ELSE w.is_leader,
          offset |-> w.offset + cfg.instance_num_ranks,
          instance_idx |-> IF hit THEN idx ELSE w.instance_idx,
          instance_sub_rank |-> IF hit THEN global_rank - w.offset ELSE w.instance_sub_rank,
          server_dict |-> DictPop(w.server_dict, Url(cfg))]

\* a faulty iteration: the key is the global rank, not the rank in the interval
WalkIterGlobalKey(w, idx, cfg, global_rank) ==
    IF Url(cfg) \notin DOMAIN w.server_dict THEN w
    ELSE LET hit == global_rank >= w.offset /\ global_rank < w.offset + cfg.instance_num_ranks IN
         [is_leader |-> IF hit /\ global_rank = w.offset THEN TRUE ELSE w.is_leader,
          offset |-> w.offset + cfg.instance_num_ranks,
          instance_idx |-> IF hit THEN idx ELSE w.instance_idx,
          instance_sub_rank |-> IF hit THEN global_rank ELSE w.instance_sub_rank,
          server_dict |-> DictPop(w.server_dict, Url(cfg))]

\* one iteration of "for idx, cfg in enumerate(server_configs)" (lines 220-230);
\* idx is the 0-based position
WalkIter(w, idx, cfg, global_rank) ==
    IF Url(cfg) \notin DOMAIN w.server_dict THEN w
    ELSE LET hit == global_rank >= w.offset /\ global_rank < w.offset + cfg.instance_num_ranks IN
         [is_leader |-> IF hit /\ global_rank = w.offset THEN TRUE ELSE w.is_leader,
          offset |-> w.offset + cfg.instance_num_ranks,
          instance_idx |-> IF hit THEN idx ELSE w.instance_idx,
          instance_sub_rank |-> IF hit THEN global_rank - w.offset ELSE w.instance_sub_rank,
          server_dict |-> DictPop(w.server_dict, Url(cfg))]

RECURSIVE WalkFrom(_, _, _, _)
WalkFrom(w, cfgs, k, global_rank) ==
    IF k > Len(cfgs) THEN w
    ELSE WalkFrom(WalkIter(w, k - 1, cfgs[k], global_rank), cfgs, k + 1, global_rank)

\* lines 216-230: the locals after the walk
Walk(cfgs, server_dict, global_rank) == WalkFrom(WalkStart(server_dict), cfgs, 1, global_rank)

\* -------------------------------------------------- extract_ctx_gen_cfgs
\* str.split(':'): the pieces of s between the colons
RECURSIVE SplitColon(_)
SplitColon(s) ==
    IF \A i \in 1..Len(s) : s[i] # ":" THEN <<s>>
    ELSE LET i == CHOOSE n \in 1..Len(s) : s[n] = ":" /\ \A m \in 1..(n - 1) : s[m] # ":" IN
         <<SubSeq(s, 1, i - 1)>> \o SplitColon(SubSeq(s, i + 1, Len(s)))

Digits == <<"0", "1", "2", "3", "4", "5", "6", "7", "8", "9">>

IsDigit(c) == \E d \in 1..Len(Digits) : Digits[d] = c

DigitVal(c) == (CHOOSE d \in 1..Len(Digits) : Digits[d] = c) - 1

\* int(port_str) accepts a non-empty string of decimal digits
IsInt(s) == Len(s) > 0 /\ \A i \in 1..Len(s) : IsDigit(s[i])

RECURSIVE ParseInt(_)
ParseInt(s) ==
    IF Len(s) = 0 THEN 0
    ELSE ParseInt(SubSeq(s, 1, Len(s) - 1)) * 10 + DigitVal(s[Len(s)])

\* "hostname, port_str = url.split(':'); port = int(port_str)" succeeds
UrlParses(url) == Len(SplitColon(url)) = 2 /\ IsInt(SplitColon(url)[2])

\* Optional[List[str]]: None, or a list
NoUrls == [is_none |-> TRUE, items |-> << >>]
SomeUrls(items) == [is_none |-> FALSE, items |-> items]

\* dict.get(key, default)
DictGet(d, key, default) == IF key \in DOMAIN d THEN d[key] ELSE default

\* extract_ctx_gen_cfgs(type, num_instances, urls, **kwargs): the list of
\* descriptors, or the error raised
extract_ctx_gen_cfgs(type, num_instances, urls, kwargs) ==
    LET truthy == ~urls.is_none /\ Len(urls.items) > 0
        instance_num_ranks == DictGet(kwargs, "tensor_parallel_size", 1)
                              * DictGet(kwargs, "pipeline_parallel_size", 1)
        n == IF truthy THEN Len(urls.items) ELSE IF num_instances > 0 THEN num_instances ELSE 0
        hostnames == [i \in 1..n |-> IF truthy THEN SplitColon(urls.items[i])[1] ELSE NoneHost]
        ports == [i \in 1..n |-> IF truthy THEN ParseInt(SplitColon(urls.items[i])[2]) ELSE NonePort]
    IN  IF truthy /\ \E i \in 1..Len(urls.items) : ~UrlParses(urls.items[i])
        THEN [err |-> "AddressParse", cfgs |-> << >>]
        ELSE IF truthy /\ Len(urls.items) # num_instances
        THEN [err |-> "InstanceCountMismatch", cfgs |-> << >>]
        ELSE [err |-> "none",
              cfgs |-> [i \in 1..n |->
                          CtxGenServerConfig(type, hostnames[i], ports[i],
                                             instance_num_ranks, kwargs)]]

\* ------------------------------------------------------ extract_disagg_cfg
\* The mappings handed to extract_disagg_cfg are mutable objects: the heap maps
\* an object id to the dict stored there.  The value of the key "router" is the
\* id of the nested router dict; every other value is stored in place.
NewId(h) == Cardinality(DOMAIN h) + 1

\* dict() / {}: a new empty dict on the heap
Alloc(h) == DictSet(h, NewId(h), EmptyDict)

\* a == b of two values stored under key: dicts compare by contents
ValEq(h, key, a, b) == IF key = "router" THEN h[a] = h[b] ELSE a = b

\* "context_servers or {}" (lines 83-84): an empty mapping is replaced by a new one
OrEmpty(h, ref) ==
    IF DOMAIN h[ref] # {} THEN [heap |-> h, ref |-> ref]
    ELSE [heap |-> Alloc(h), ref |-> NewId(h)]

\* a faulty iteration: the top-level value replaces the value of the section
NormalizeIterOverwrite(h, key, value, ref) ==
    [heap |-> [h EXCEPT ![ref] = DictSet(@, key, value)], err |-> "none"]

\* lines 93-100 for one key and one section
NormalizeIter(h, key, value, ref) ==
    IF key \in DOMAIN h[ref]
    THEN IF ~ValEq(h, key, h[ref][key], value)
         THEN [heap |-> h, err |-> "ConfigConflict"]
         ELSE [heap |-> h, err |-> "none"]
    ELSE [heap |-> [h EXCEPT ![ref] = DictSet(@, key, value)], err |-> "none"]

\* lines 89-100: kwargs is the sequence of (key, value) items in dict order,
\* refs the two sections <<context_servers, generation_servers>>; i and j are
\* the positions of the two nested loops
RECURSIVE NormalizeFrom(_, _, _, _, _)
NormalizeFrom(h, kwargs, refs, i, j) ==
    IF i > Len(kwargs) THEN [heap |-> h, err |-> "none"]
    ELSE LET r == NormalizeIter(h, kwargs[i][1], kwargs[i][2], refs[j]) IN
         IF r.err # "none" THEN r
         ELSE IF j < Len(refs) THEN NormalizeFrom(r.heap, kwargs, refs, i, j + 1)
         ELSE NormalizeFrom(r.heap, kwargs, refs, i + 1, 1)

\* lines 171-174: copy the keys of extract_keys that server_cfg holds into args
RECURSIVE CopyKeys(_, _, _)
CopyKeys(args, server_cfg, keys) ==
    IF keys = << >> THEN args
    ELSE CopyKeys(IF Head(keys) \in DOMAIN server_cfg
                  THEN DictSet(args, Head(keys), server_cfg[Head(keys)])
                  ELSE args,
                  server_cfg, Tail(keys))

\* extract_router_config(server_cfg) on the heap: pops "router" from the
\* section, pops "type" from the router dict and writes the extract_keys into it
extract_router_config(h, cfgref) ==
    LET has == "router" \in DOMAIN h[cfgref]
        args == IF has THEN h[cfgref]["router"] ELSE NewId(h)
        h1 == IF has THEN [h EXCEPT ![cfgref] = DictPop(@, "router")] ELSE Alloc(h)
        router_type == DictGet(h1[args], "type", "round_robin")
        popped == IF "type" \in DOMAIN h1[args] THEN DictPop(h1[args], "type") ELSE h1[args]
        filled == CopyKeys(popped, h1[cfgref], <<"max_batch_size", "max_num_tokens">>)
    IN  [heap |-> [h1 EXCEPT ![args] = filled],
         config |-> [type |-> router_type, args |-> args, server_role |-> "None"]]

\* extract_ctx_gen_cfgs(type=type, **section): num_instances and urls are
\* taken out of the section, the rest is kwargs
ExpandSection(type, section) ==
    extract_ctx_gen_cfgs(
        type,
        DictGet(section, "num_instances", 1),
        DictGet(section, "urls", NoUrls),
        [x \in (DOMAIN section) \ {"num_instances", "urls"} |-> section[x]])

\* ------------------------------------------------------------ the inputs
\* (hostname, port) pairs of the instances: unassigned, and two parsed addresses
AddrChoices == {<<NoneHost, NonePort>>, <<<<"a">>, 7>>, <<<<"b">>, 7>>}

\* other_args mappings of the instances
ArgChoices == {EmptyDict, [x \in {"max_batch_size"} |-> 8]}

\* instance_num_ranks is tensor_parallel_size * pipeline_parallel_size >= 1
RankChoices == {1, MaxRanks}

InstanceChoices ==
    {CtxGenServerConfig(t, a[1], a[2], c, o) :
        t \in {"ctx", "gen"}, a \in AddrChoices, c \in RankChoices, o \in ArgChoices}

InstanceSeqs == UNION {[1..n -> InstanceChoices] : n \in 0..MaxInst}

\* largest world size worth trying: one more than any registry total
MaxWorld == MaxInst * MaxRanks + 1

VARIABLES
    server_configs,   \* the ordered instance sequence given to split_world_comm
    pc,               \* position of the caller inside split_world_comm
    k,                \* 1-based position of the running for loop
    reg,              \* locals of get_server_configs_dict
    global_size,      \* global_mpi_size()
    global_rank,      \* global_mpi_rank()
    walk,             \* locals of the offset walk
    ppc,              \* SPMD run: position of each process
    ploc,             \* SPMD run: the locals of each process
    split_args,       \* SPMD run: (color, key) of the processes that called Split
    barrier_in,       \* SPMD run: the processes that entered the subgroup barrier
    exp_pc,           \* expansion run: position of the caller of extract_ctx_gen_cfgs
    exp_in,           \* expansion run: the arguments of extract_ctx_gen_cfgs
    exp_out,          \* expansion run: what extract_ctx_gen_cfgs returned or raised
    heap,             \* composition run: the mutable mappings, by object id
    cfg_pc,           \* composition run: position inside extract_disagg_cfg
    cfg_run,          \* composition run: 1 for the first call, 2 for the second
    cfg_args,         \* composition run: the arguments of both calls
    cfg_pre,          \* composition run: the heap when the running call began
    cfg_loc,          \* composition run: the locals of the running call
    cfg_res           \* composition run: the DisaggServerConfig of each finished call

regVars == <<pc, k, reg, global_size, global_rank, walk>>
spmdVars == <<ppc, ploc, split_args, barrier_in>>
expVars == <<exp_pc, exp_in, exp_out>>
cfgVars == <<heap, cfg_pc, cfg_run, cfg_args, cfg_pre, cfg_loc, cfg_res>>
vars == <<server_configs, regVars, spmdVars, expVars, cfgVars>>

\* the variables of a run that is not taking place
RegIdle ==
    /\ pc = "idle" /\ k = 1 /\ reg = RegistryStart /\ global_rank = 0
    /\ walk = WalkStart(EmptyDict)
ExpIdle ==
    /\ exp_pc = "idle" /\ exp_in = EmptyDict /\ exp_out = EmptyDict
CfgIdle ==
    /\ heap = EmptyDict /\ cfg_pc = "idle" /\ cfg_run = 0 /\ cfg_args = EmptyDict
    /\ cfg_pre = EmptyDict /\ cfg_loc = EmptyDict /\ cfg_res = << >>
SpmdIdle ==
    /\ ppc = EmptyDict /\ ploc = EmptyDict /\ split_args = EmptyDict /\ barrier_in = {}

\* ------------------------------------------- one caller of split_world_comm
Init ==
    /\ server_configs \in InstanceSeqs
    /\ pc = "registry"
    /\ k = 1
    /\ reg = RegistryStart
    /\ global_size = 0
    /\ global_rank = 0
    /\ walk = WalkStart(EmptyDict)
    /\ SpmdIdle
    /\ ExpIdle
    /\ CfgIdle

\* lines 186-200: one iteration of the registry loop; a raise ends the call
RegistryStep ==
    /\ pc = "registry"
    /\ k <= Len(server_configs)
    /\ reg' = RegistryIter(reg, server_configs[k])
    /\ k' = k + 1
    /\ pc' = IF reg'.err # "none" THEN "raised" ELSE "registry"
    /\ UNCHANGED <<server_configs, global_size, global_rank, walk, spmdVars, expVars, cfgVars>>

\* lines 202, 209-219: the registry returns, the world size and rank are read,
\* the assert compares the size with num_workers and the walk starts
SizeCheck ==
    /\ pc = "registry"
    /\ k > Len(server_configs)
    /\ \E gs \in 1..MaxWorld :
        /\ global_size' = gs
        /\ IF gs # reg.num_workers
           THEN /\ pc' = "assert_failed"
                /\ UNCHANGED <<k, global_rank, walk>>
           ELSE /\ \E gr \in 0..(gs - 1) : global_rank' = gr
                /\ pc' = "walk"
                /\ k' = 1
                /\ walk' = WalkStart(reg.server_dict)
    /\ UNCHANGED <<server_configs, reg, spmdVars, expVars, cfgVars>>

\* lines 220-230: one iteration of the offset walk
WalkStep ==
    /\ pc = "walk"
    /\ k <= Len(server_configs)
    /\ walk' = WalkIter(walk, k - 1, server_configs[k], global_rank)
    /\ k' = k + 1
    /\ UNCHANGED <<server_configs, pc, reg, global_size, global_rank, spmdVars, expVars, cfgVars>>

\* line 233: the walk is over, Split is called with color and key
WalkDone ==
    /\ pc = "walk"
    /\ k > Len(server_configs)
    /\ pc' = "split"
    /\ UNCHANGED <<server_configs, k, reg, global_size, global_rank, walk, spmdVars, expVars, cfgVars>>

Next == RegistryStep \/ SizeCheck \/ WalkStep \/ WalkDone

Spec == Init /\ [][Next]_vars

\* ------------------------- all processes of the world run split_world_comm
\* largest MPI_COMM_WORLD
MaxProcs == 4

Procs == 0..(global_size - 1)

\* COMM_WORLD.Split(color, key) then Get_rank(): the members of the new group
\* are the callers with the same color, ordered by key and, for equal keys, by
\* their rank in the world
SubRank(args, p) ==
    Cardinality({q \in DOMAIN args :
        /\ args[q].color = args[p].color
        /\ \/ args[q].key < args[p].key
           \/ args[q].key = args[p].key /\ q < p})

\* the members of the subgroup of p
SubGroup(args, p) == {q \in DOMAIN args : args[q].color = args[p].color}

\* the instance sequences of the SPMD runs: every address, role and rank
\* count, with equal other_args (co-located pairs are accepted)
SpmdInstanceChoices ==
    {CtxGenServerConfig(t, a[1], a[2], c, EmptyDict) :
        t \in {"ctx", "gen"}, a \in AddrChoices, c \in RankChoices}

SpmdSeqs == UNION {[1..n -> SpmdInstanceChoices] : n \in 0..MaxInst}

SpmdInit ==
    /\ server_configs \in SpmdSeqs
    /\ global_size \in 1..MaxProcs
    /\ ppc = [p \in Procs |-> "start"]
    /\ ploc = [p \in Procs |-> [is_leader |-> FALSE, instance_idx |-> 0,
                                 instance_sub_rank |-> 0, sub_rank |-> 0]]
    /\ split_args = EmptyDict
    /\ barrier_in = {}
    /\ RegIdle
    /\ ExpIdle
    /\ CfgIdle

\* what each step of process p waits for: Partition for nothing; the return of
\* Split, collective over the world, for the call of every process; the return
\* of the barrier for the arrival of every member of the subgroup
CanPartition(p) == ppc[p] = "start"
CanSplitReturn(p) == ppc[p] = "in_split" /\ DOMAIN split_args = Procs
CanBarrierReturn(p) == ppc[p] = "in_barrier" /\ SubGroup(split_args, p) \subseteq barrier_in

\* lines 209-233 on process p: registry, assert, walk, and the call of Split
Partition(p) ==
    /\ CanPartition(p)
    /\ LET r == get_server_configs_dict(server_configs) IN
       IF r.err # "none"
       THEN /\ ppc' = [ppc EXCEPT ![p] = "raised"]
            /\ UNCHANGED <<ploc, split_args>>
       ELSE IF global_size # r.num_workers
       THEN /\ ppc' = [ppc EXCEPT ![p] = "assert_failed"]
            /\ UNCHANGED <<ploc, split_args>>
       ELSE LET w == Walk(server_configs, r.server_dict, p) IN
            /\ ploc' = [ploc EXCEPT ![p] = [is_leader |-> w.is_leader,
                                            instance_idx |-> w.instance_idx,
                                            instance_sub_rank |-> w.instance_sub_rank,
                                            sub_rank |-> 0]]
            /\ split_args' = DictSet(split_args, p,
                                     [color |-> w.instance_idx, key |-> w.instance_sub_rank])
            /\ ppc' = [ppc EXCEPT ![p] = "in_split"]
    /\ UNCHANGED <<server_configs, regVars, expVars, cfgVars, barrier_in>>

\* lines 233-240 on process p: Split is collective over the world, so it
\* returns once every process has called it; the subgroup rank is compared
\* with instance_sub_rank and the subgroup barrier is entered
SplitReturn(p) ==
    /\ CanSplitReturn(p)
    /\ LET sub_rank == SubRank(split_args, p) IN
       /\ ploc' = [ploc EXCEPT ![p].sub_rank = sub_rank]
       /\ IF sub_rank # ploc[p].instance_sub_rank
          THEN /\ ppc' = [ppc EXCEPT ![p] = "verify_failed"]
               /\ UNCHANGED barrier_in
          ELSE /\ ppc' = [ppc EXCEPT ![p] = "in_barrier"]
               /\ barrier_in' = barrier_in \cup {p}
    /\ UNCHANGED <<server_configs, regVars, expVars, cfgVars, split_args>>

\* lines 240-246 on process p: the barrier releases once every member of the
\* subgroup has entered it, and the call returns
BarrierReturn(p) ==
    /\ CanBarrierReturn(p)
    /\ ppc' = [ppc EXCEPT ![p] = "done"]
    /\ UNCHANGED <<server_configs, regVars, expVars, cfgVars, ploc, split_args, barrier_in>>

SpmdNext ==
    \/ \E p \in Procs : Partition(p)
    \/ \E p \in Procs : SplitReturn(p)
    \/ \E p \in Procs : BarrierReturn(p)

SpmdSpec == SpmdInit /\ [][SpmdNext]_vars

\* ------------------- one role section expanded and handed to the partition
\* largest num_instances of a role section
MaxNumInstances == 2
\* longest urls list of a role section
MaxUrls == 2

\* "host:port" strings: two that parse, one without a colon, one whose port
\* is no number
UrlChoices ==
    {<<"a", ":", "7">>, <<"b", ":", "7">>, <<"a", "7">>, <<"a", ":", "b">>}

UrlLists == UNION {[1..n -> UrlChoices] : n \in 0..MaxUrls}

\* the keyword arguments left of a role section
KwargChoices ==
    {EmptyDict,
     [x \in {"tensor_parallel_size"} |-> 2],
     [x \in {"tensor_parallel_size", "pipeline_parallel_size"} |-> 2]}

ExpInit ==
    /\ exp_pc = "call"
    /\ exp_in \in [type : {"ctx", "gen"},
                   num_instances : 0..MaxNumInstances,
                   urls : {NoUrls} \cup {SomeUrls(l) : l \in UrlLists},
                   kwargs : KwargChoices]
    /\ exp_out = EmptyDict
    /\ server_configs = << >>
    /\ global_size = 0
    /\ RegIdle
    /\ SpmdIdle
    /\ CfgIdle

\* extract_ctx_gen_cfgs is called on the section; the descriptors it returns
\* are the sequence split_world_comm is then called with
Expand ==
    /\ exp_pc = "call"
    /\ exp_out' = extract_ctx_gen_cfgs(exp_in.type, exp_in.num_instances,
                                       exp_in.urls, exp_in.kwargs)
    /\ IF exp_out'.err # "none"
       THEN /\ exp_pc' = "raised"
            /\ UNCHANGED <<server_configs, pc>>
       ELSE /\ exp_pc' = "returned"
            /\ server_configs' = exp_out'.cfgs
            /\ pc' = "registry"
    /\ UNCHANGED <<exp_in, k, reg, global_size, global_rank, walk, spmdVars, cfgVars>>

ExpNext == Expand \/ RegistryStep \/ SizeCheck \/ WalkStep \/ WalkDone

ExpSpec == ExpInit /\ [][ExpNext]_vars

\* ------------------------------ extract_disagg_cfg called twice on a snapshot
\* scalar parameters of a mapping (top level or role section)
PlainChoices ==
    {EmptyDict, [x \in {"max_batch_size"} |-> 8], [x \in {"max_batch_size"} |-> 16]}

\* contents of a router mapping
RouterChoices ==
    {[type |-> "kv_cache_aware"],
     [type |-> "kv_cache_aware", x |-> 5],
     [x \in {"x"} |-> 5],
     [type |-> "load_balancing"]}

\* a router mapping or none: a list of at most one
RouterOpts == {<< >>} \cup {<<r>> : r \in RouterChoices}

\* the items of a mapping in one of their dict orders; a present router is the
\* object ref
ItemsOf(plain, router, ref, router_first) ==
    LET p == [i \in 1..Cardinality(DOMAIN plain) |->
                <<"max_batch_size", plain["max_batch_size"]>>]
        r == [i \in 1..Len(router) |-> <<"router", ref>>]
    IN  IF router_first THEN r \o p ELSE p \o r

\* the mapping with the given items
RECURSIVE DictOf(_)
DictOf(items) ==
    IF items = << >> THEN EmptyDict
    ELSE DictSet(DictOf(SubSeq(items, 1, Len(items) - 1)),
                 items[Len(items)][1], items[Len(items)][2])

\* objects 1 and 2 are the context_servers and generation_servers mappings,
\* the router mappings that exist follow: top level, context, generation
CfgInit ==
    /\ \E tp, cp, gp \in PlainChoices, tr, cr, gr \in RouterOpts, router_first \in BOOLEAN :
        LET routers == tr \o cr \o gr
            tref == 3
            cref == 3 + Len(tr)
            gref == 3 + Len(tr) + Len(cr)
            objs == <<DictOf(ItemsOf(cp, cr, cref, router_first)),
                      DictOf(ItemsOf(gp, gr, gref, router_first))>> \o routers
        IN  /\ heap = [i \in 1..Len(objs) |-> objs[i]]
            /\ cfg_args = [kwargs |-> ItemsOf(tp, tr, tref, router_first),
                           context_servers |-> 1,
                           generation_servers |-> 2]
    /\ cfg_pre = heap
    /\ cfg_pc = "call"
    /\ cfg_run = 1
    /\ cfg_loc = EmptyDict
    /\ cfg_res = << >>
    /\ server_configs = << >>
    /\ global_size = 0
    /\ RegIdle
    /\ SpmdIdle
    /\ ExpIdle

\* lines 83-100: the sections are taken, the top-level parameters are compared
\* with them and inherited into them
CfgNormalize ==
    /\ cfg_pc = "call"
    /\ LET c == OrEmpty(heap, cfg_args.context_servers)
           g == OrEmpty(c.heap, cfg_args.generation_servers)
           r == NormalizeFrom(g.heap, cfg_args.kwargs, <<c.ref, g.ref>>, 1, 1)
       IN  /\ heap' = r.heap
           /\ cfg_loc' = [context_servers |-> c.ref, generation_servers |-> g.ref,
                          err |-> r.err]
           /\ cfg_pc' = IF r.err # "none" THEN "raised" ELSE "normalized"
    /\ UNCHANGED <<server_configs, regVars, spmdVars, expVars,
                   cfg_run, cfg_args, cfg_pre, cfg_res>>

\* lines 102-103: the router of the context section, then of the generation
\* section
CfgRouters ==
    /\ cfg_pc = "normalized"
    /\ LET c == extract_router_config(heap, cfg_loc.context_servers)
           g == extract_router_config(c.heap, cfg_loc.generation_servers)
       IN  /\ heap' = g.heap
           /\ cfg_loc' = [context_servers |-> cfg_loc.context_servers,
                          generation_servers |-> cfg_loc.generation_servers,
                          err |-> "none",
                          ctx_router_config |-> c.config,
                          gen_router_config |-> g.config]
    /\ cfg_pc' = "routed"
    /\ UNCHANGED <<server_configs, regVars, spmdVars, expVars,
                   cfg_run, cfg_args, cfg_pre, cfg_res>>

\* lines 105-119: the instances of both sections, the roles of the routers and
\* the DisaggServerConfig; hostname, port, max_retries and
\* conditional_disagg_config are copied from the arguments unread
CfgCompose ==
    /\ cfg_pc = "routed"
    /\ LET c == ExpandSection("ctx", heap[cfg_loc.context_servers])
           g == ExpandSection("gen", heap[cfg_loc.generation_servers])
       IN  IF c.err # "none" \/ g.err # "none"
           THEN /\ cfg_pc' = "raised"
                /\ cfg_loc' = [cfg_loc EXCEPT !.err = IF c.err # "none" THEN c.err ELSE g.err]
                /\ UNCHANGED cfg_res
           ELSE /\ cfg_pc' = "done"
                /\ cfg_res' = Append(cfg_res,
                       [server_configs |-> c.cfgs \o g.cfgs,
                        ctx_router_config |->
                            [cfg_loc.ctx_router_config EXCEPT !.server_role = "CONTEXT"],
                        gen_router_config |->
                            [cfg_loc.gen_router_config EXCEPT !.server_role = "GENERATION"]])
                /\ UNCHANGED cfg_loc
    /\ UNCHANGED <<server_configs, regVars, spmdVars, expVars,
                   heap, cfg_run, cfg_args, cfg_pre>>

\* the caller runs extract_disagg_cfg again on the mappings it still holds
CfgRerun ==
    /\ cfg_pc \in {"done", "raised"}
    /\ cfg_run = 1
    /\ cfg_run' = 2
    /\ cfg_pc' = "call"
    /\ cfg_pre' = heap
    /\ cfg_loc' = EmptyDict
    /\ UNCHANGED <<server_configs, regVars, spmdVars, expVars, heap, cfg_args, cfg_res>>

CfgNext == CfgNormalize \/ CfgRouters \/ CfgCompose \/ CfgRerun

CfgSpec == CfgInit /\ [][CfgNext]_vars

\* ------------------------------------------------ reference definitions
\* position i holds the first occurrence of its address
FirstOcc(cfgs, i) == \A j \in 1..(i - 1) : Url(cfgs[j]) # Url(cfgs[i])

\* position of the first occurrence of the address at position i
FirstPos(cfgs, i) == CHOOSE j \in 1..i : Url(cfgs[j]) = Url(cfgs[i]) /\ FirstOcc(cfgs, j)

\* sum of instance_num_ranks over the first occurrences before position i
RECURSIVE OffsetOf(_, _)
OffsetOf(cfgs, i) ==
    IF i <= 1 THEN 0
    ELSE OffsetOf(cfgs, i - 1)
         + (IF FirstOcc(cfgs, i - 1) THEN cfgs[i - 1].instance_num_ranks ELSE 0)

TotalOf(cfgs) == OffsetOf(cfgs, Len(cfgs) + 1)

\* first occurrences whose interval [offset_i, offset_i + c_i) holds rank r
Owners(cfgs, r) ==
    {i \in 1..Len(cfgs) :
        /\ FirstOcc(cfgs, i)
        /\ OffsetOf(cfgs, i) <= r
        /\ r < OffsetOf(cfgs, i) + cfgs[i].instance_num_ranks}

\* two instances with the same address and the same role
HasSameRoleDup(cfgs) ==
    \E i, j \in 1..Len(cfgs) :
        i < j /\ Url(cfgs[i]) = Url(cfgs[j]) /\ cfgs[i].type = cfgs[j].type

\* ------------------------------------------------------------------ C1
\* C1: for an accepted sequence and a world size equal to the registry total,
\* the walk skips exactly the later occurrences of an address, its offset before
\* position i is the sum of the ranks of the first occurrences before i, the
\* intervals end at the total, and the caller's rank lies in exactly one
\* interval, whose position is instance_idx and in which instance_sub_rank is
\* the distance from the interval's start.
C1_PartitionIntervals ==
    /\ pc = "walk" =>
        /\ walk.offset = OffsetOf(server_configs, k)
        /\ k <= Len(server_configs) =>
            ((Url(server_configs[k]) \in DOMAIN walk.server_dict)
                <=> FirstOcc(server_configs, k))
    /\ pc = "split" =>
        /\ walk.offset = global_size
        /\ global_size = TotalOf(server_configs)
        /\ Cardinality(Owners(server_configs, global_rank)) = 1
        /\ \A i \in Owners(server_configs, global_rank) :
            /\ walk.instance_idx = i - 1
            /\ walk.instance_sub_rank = global_rank - OffsetOf(server_configs, i)
            /\ walk.instance_sub_rank >= 0
            /\ walk.instance_sub_rank < server_configs[i].instance_num_ranks

\* a rank inside the third instance, behind a co-located pair that shares ranks
C1_Witness ==
    /\ pc = "split"
    /\ Len(server_configs) = 3
    /\ ~FirstOcc(server_configs, 2)
    /\ walk.instance_idx = 2
    /\ walk.instance_sub_rank = 1

\* ------------------------------------------------------------------ C3
\* C3: whenever two instances of the sequence have the same address and the
\* same role, get_server_configs_dict fails.  The claim names the
\* duplicate-server error; the formula asks only that the call raises, so a
\* violation is a sequence with such a pair that the registry accepts.
C3_SameRoleDupRejected ==
    (pc # "registry" /\ HasSameRoleDup(server_configs)) => pc = "raised"

\* ------------------------------------------------------------------ C4
\* C4, one step: an instance whose address was registered by an instance of
\* the other role passes the registry iff the other_args of the two are equal, else the
\* call raises the mixed-role conflict; passing leaves num_workers as it was,
\* and the returned num_workers is the sum of instance_num_ranks over the
\* first occurrence of each address.
C4_MixedRoleStep ==
    (/\ pc = "registry"
     /\ k <= Len(server_configs)
     /\ ~FirstOcc(server_configs, k)
     /\ server_configs[FirstPos(server_configs, k)].type # server_configs[k].type)
    => IF server_configs[FirstPos(server_configs, k)].other_args = server_configs[k].other_args
       THEN pc' = "registry" /\ reg'.err = "none" /\ reg'.num_workers = reg.num_workers
       ELSE pc' = "raised" /\ reg'.err = "MixedRoleArgsConflict"

\* C4, the total: the returned num_workers counts each address once
C4_Total ==
    pc \in {"walk", "split", "assert_failed"} => reg.num_workers = TotalOf(server_configs)

\* C4: every step of the registry treats a co-located instance as above and
\* every state it leads to has the total of the first occurrences
C4_MixedRoleAccepted == [][C4_MixedRoleStep /\ C4_Total']_vars

\* a co-located pair was accepted and the registry returned a total that
\* counts its ranks once
C4_Witness ==
    /\ pc = "walk"
    /\ Len(server_configs) = 2
    /\ Url(server_configs[1]) = Url(server_configs[2])
    /\ server_configs[1].instance_num_ranks = MaxRanks
    /\ reg.num_workers = MaxRanks

\* ------------------------------------------------------------------ C2
AllDone == \A p \in Procs : ppc[p] = "done"

\* the ranks that returned the index of position i together with is_leader
LeadersOf(i) == {p \in Procs : ploc[p].instance_idx = i - 1 /\ ploc[p].is_leader}

\* C2 as claimed: once all ranks have returned, every instance of the sequence
\* has exactly one rank that returned its index with is_leader, and that rank
\* has instance_sub_rank 0.
C2_OneLeaderEveryInstance ==
    AllDone =>
        \A i \in 1..Len(server_configs) :
            /\ Cardinality(LeadersOf(i)) = 1
            /\ \A p \in LeadersOf(i) : ploc[p].instance_sub_rank = 0

\* C2 amended: once all ranks have returned, every instance that is the first
\* occurrence of its address has exactly one rank that returned its index with
\* is_leader, that rank has instance_sub_rank 0 and no other rank of the
\* instance has; a later occurrence of an address (a co-located instance) has
\* no rank that returned its index.
C2_OneLeaderPerFirstOccurrence ==
    AllDone =>
        \A i \in 1..Len(server_configs) :
            IF FirstOcc(server_configs, i)
            THEN /\ Cardinality(LeadersOf(i)) = 1
                 /\ \A p \in Procs :
                        ploc[p].instance_idx = i - 1 =>
                            (ploc[p].is_leader <=> ploc[p].instance_sub_rank = 0)
            ELSE \A p \in Procs : ploc[p].instance_idx # i - 1

\* all ranks returned; the third instance follows a co-located pair and has a
\* leader and a second rank
C2_Witness ==
    /\ AllDone
    /\ Len(server_configs) = 3
    /\ ~FirstOcc(server_configs, 2)
    /\ \E p, q \in Procs :
        /\ ploc[p].instance_idx = 2 /\ ploc[p].is_leader
        /\ ploc[q].instance_idx = 2 /\ ~ploc[q].is_leader

\* ------------------------------------------------------------------ C8
Accepted == get_server_configs_dict(server_configs).err = "none"

AllAssertFailed == \A p \in Procs : ppc[p] = "assert_failed"

C8_Safe ==
    /\ (\E p \in Procs : ppc[p] = "assert_failed") =>
        /\ global_size # TotalOf(server_configs)
        /\ split_args = EmptyDict
        /\ \A q \in Procs : ppc[q] \in {"start", "assert_failed"}
    /\ \A p \in Procs :
        /\ ppc[p] # "verify_failed"
        /\ ppc[p] \in {"in_split", "in_barrier", "done"} =>
            /\ global_size = TotalOf(server_configs)
            /\ split_args[p] = [color |-> ploc[p].instance_idx,
                                key |-> ploc[p].instance_sub_rank]
        /\ ppc[p] \in {"in_barrier", "done"} =>
            ploc[p].sub_rank = ploc[p].instance_sub_rank

\* no process is left blocked: unless all processes have failed the size
\* check or all have returned, some process can take its next step (and every
\* step moves one process forward along start, in_split, in_barrier, done)
C8_NotStuck ==
    \/ AllAssertFailed
    \/ AllDone
    \/ \E p \in Procs : CanPartition(p) \/ CanSplitReturn(p) \/ CanBarrierReturn(p)

\* C8: for a sequence the registry accepts, run by all ranks of the world under
\* any interleaving: if a process fails the size check then the size differs
\* from the total and no process has called Split; otherwise every process
\* calls Split with color = instance_idx and key = instance_sub_rank and gets a
\* subgroup rank equal to instance_sub_rank (the verification never fails);
\* and the run never stops in a state where a process waits in Split or in
\* the barrier: it only stops once all processes have failed the size check
\* or all have passed the barrier and returned.
C8_UniformOutcome == Accepted => (C8_Safe /\ C8_NotStuck)

\* four ranks in three subgroups have all returned
C8_Witness ==
    /\ AllDone
    /\ global_size = 4
    /\ \E p \in Procs : ploc[p].instance_idx = 2 /\ ploc[p].sub_rank = 1

\* ------------------------------------------------------------------ C7
\* C7: whenever a urls list is given, the empty list included, and its length
\* differs from num_instances, extract_ctx_gen_cfgs raises and returns no
\* descriptors.
C7_CountMismatchRejected ==
    (/\ exp_pc \in {"returned", "raised"}
     /\ ~exp_in.urls.is_none
     /\ Len(exp_in.urls.items) # exp_in.num_instances)
    => (exp_pc = "raised" /\ exp_out.cfgs = << >>)

\* ------------------------------------------------------------------ C9
\* C9: for a role section with num_instances >= 2 and no urls, the registry
\* accepts the expanded sequence and returns num_instances * instance_num_ranks.
C9_UnassignedNotDuplicates ==
    (/\ exp_pc = "returned"
     /\ exp_in.urls.is_none
     /\ exp_in.num_instances >= 2
     /\ pc \in {"raised", "assert_failed", "walk", "split"})
    => (/\ pc # "raised"
        /\ reg.num_workers = exp_in.num_instances
                             * server_configs[1].instance_num_ranks)

\* ------------------------------------------------------------------ C5
\* a DisaggServerConfig with the args of its routers read from the heap
Contents(res) ==
    [server_configs |-> res.server_configs,
     ctx_type |-> res.ctx_router_config.type,
     ctx_args |-> heap[res.ctx_router_config.args],
     gen_type |-> res.gen_router_config.type,
     gen_args |-> heap[res.gen_router_config.args]]

\* C5: when extract_disagg_cfg has returned for a snapshot, a second call on
\* the same mappings returns too, and the two DisaggServerConfig values are
\* structurally equal.
C5_Idempotent ==
    (cfg_run = 2 /\ cfg_pc \in {"done", "raised"} /\ Len(cfg_res) >= 1)
    => (/\ cfg_pc = "done"
        /\ Contents(cfg_res[1]) = Contents(cfg_res[2]))

\* ------------------------------------------------------------------ C6
\* the sections as the running call found them
PreSections == <<cfg_pre[cfg_args.context_servers], cfg_pre[cfg_args.generation_servers]>>

\* some top-level key is in a section with a different value
Conflict ==
    \E i \in 1..Len(cfg_args.kwargs), j \in 1..2 :
        /\ cfg_args.kwargs[i][1] \in DOMAIN PreSections[j]
        /\ ~ValEq(cfg_pre, cfg_args.kwargs[i][1],
                  PreSections[j][cfg_args.kwargs[i][1]], cfg_args.kwargs[i][2])

\* C6: normalization raises the config conflict iff some top-level key is in
\* the context or the generation section with a value different from the
\* top-level one; otherwise every top-level key is in both sections with the
\* top-level value and every key a section had keeps its value.
C6_NormalizeConflict ==
    cfg_pc \in {"normalized", "raised"} =>
        /\ (cfg_pc = "raised") <=> Conflict
        /\ cfg_pc = "raised" => cfg_loc.err = "ConfigConflict"
        /\ cfg_pc = "normalized" =>
            LET now == <<heap[cfg_loc.context_servers], heap[cfg_loc.generation_servers]>> IN
            \A j \in 1..2 :
                /\ \A i \in 1..Len(cfg_args.kwargs) :
                    /\ cfg_args.kwargs[i][1] \in DOMAIN now[j]
                    /\ ValEq(heap, cfg_args.kwargs[i][1],
                             now[j][cfg_args.kwargs[i][1]], cfg_args.kwargs[i][2])
                /\ \A key \in DOMAIN PreSections[j] :
                    /\ key \in DOMAIN now[j]
                    /\ now[j][key] = PreSections[j][key]
                    /\ key = "router" => heap[now[j][key]] = cfg_pre[PreSections[j][key]]

\* two top-level keys passed: the context section had an equal router of its
\* own and inherited max_batch_size, the generation section inherited both
C6_Witness ==
    /\ cfg_run = 1
    /\ cfg_pc = "normalized"
    /\ Len(cfg_args.kwargs) = 2
    /\ DOMAIN PreSections[1] = {"router"}
    /\ DOMAIN PreSections[2] = {}
    /\ DOMAIN heap[cfg_loc.generation_servers] = {"router", "max_batch_size"}

\* ----------------------------------------------------------------- C10
\* the top-level router mapping of the call, if any
TopRouter ==
    {cfg_args.kwargs[i][2] : i \in {n \in 1..Len(cfg_args.kwargs) : cfg_args.kwargs[n][1] = "router"}}

\* the residual args of router mapping r extended with the extract_keys of a section
ExpectedArgs(r, section) ==
    LET copied == {"max_batch_size", "max_num_tokens"} \cap DOMAIN section IN
    [x \in ((DOMAIN r) \ {"type"}) \cup copied |-> IF x \in copied THEN section[x] ELSE r[x]]

\* C10: when a router mapping is given at the top level only and inherited into
\* both sections, both router configs have the type of that mapping and its
\* residual args, each extended with max_batch_size / max_num_tokens of its own
\* section.
C10_InheritedRouterBothRoles ==
    (/\ cfg_run = 1
     /\ cfg_pc = "done"
     /\ TopRouter # {}
     /\ "router" \notin DOMAIN PreSections[1]
     /\ "router" \notin DOMAIN PreSections[2])
    => \A t \in TopRouter :
        LET res == cfg_res[1] IN
        /\ res.ctx_router_config.type = DictGet(cfg_pre[t], "type", "round_robin")
        /\ res.gen_router_config.type = DictGet(cfg_pre[t], "type", "round_robin")
        /\ heap[res.ctx_router_config.args]
             = ExpectedArgs(cfg_pre[t], heap[cfg_loc.context_servers])
        /\ heap[res.gen_router_config.args]
             = ExpectedArgs(cfg_pre[t], heap[cfg_loc.generation_servers])

====
